---- MODULE Spec2Model ----
(***************************************************************************)
(* Report generation pipeline of Explain My Game (apps/api).                *)
(*                                                                          *)
(* Two pipelines are modelled from the source:                              *)
(*   - game reports:   routers/reports.py generate_report and              *)
(*                     services/report_generator.py generate_game_report    *)
(*   - player reports: routers/players.py create_player_report and         *)
(*                     services/player_report_generator.py                  *)
(*                     generate_player_report                               *)
(* together with the in-memory rate limiters of core/rate_limit.py and      *)
(* main.py, and the public sharing of player reports (routers/players.py   *)
(* toggle_report_sharing and get_shared_report).                            *)
(*                                                                          *)
(* A provider response is modelled by the content of its first choice: no   *)
(* content at all (None), a text that is not JSON (the empty string is one  *)
(* of them), or a JSON object.  A JSON object is a record holding the       *)
(* features its schema validator looks at; a text field is a record         *)
(* [len, terms] with its length and the set of the validators' keywords it  *)
(* contains (lower-cased substring test).                                   *)
(***************************************************************************)
EXTENDS Integers, Sequences, FiniteSets, TLC

(* ---------------------------------------------------------------------- *)
(* Bounds of the model                                                     *)
(* ---------------------------------------------------------------------- *)
MaxRequests == 3
MaxChecks == 3
MaxHourChecks == 12
MaxPlayerRequests == 11
MaxShareRequests == 4
MaxAttempts == 16
MaxInputGames == 3
MaxLoopRequests == 3

(* ---------------------------------------------------------------------- *)
(* Program constants                                                       *)
(* ---------------------------------------------------------------------- *)
REPORT_WINDOW_SECONDS == 3600
GENERAL_WINDOW_SECONDS == 60
RATE_LIMIT_WINDOW == 60
REPORTS_PER_HOUR == 10

\* mutant: the comparison of len(games) is made against 2
MinGamesTwo == 3 - 1

MIN_GAMES == 3
RECENT_GAMES == 5

Procs == {"w1", "w2"}
Workers == {"w1"}
Keys == {"k1", "k2"}
TheUser == "k1"
TheGame == "g1"
ThePlayer == "p1"

\* clock readings of time.time() used by the model (seconds)
Instants == {0, 1, 60, 61, 3600, 3601}

\* limits handed to the limiters: the router passes 10, the defaults are 10
\* and 60, RATE_LIMIT_REQUESTS comes from the environment
Limits == {1, 2, 10}
ConfiguredLimits == {1, 60}

NoText == << >>
NullJson == [null |-> TRUE]
NoReport == 0
NoToken == 0

\* the PlayerGame rows of the player, named by their id; a larger id is a
\* later game_date
PlayerGameIds == {1, 2, 3}

\* report_data.game_ids: None or a list of ids (an empty list counts as None)
GameIdLists == {<< >>, <<1, 2>>, <<1, 2, 3>>, <<3, 2, 1>>}


(* ---------------------------------------------------------------------- *)
(* Provider responses                                                      *)
(* ---------------------------------------------------------------------- *)
\* Every outcome of a provider call is a record with a kind:
\*   "raise" client.chat.completions.create raises the exception id
\*   "none"  the response's message.content is None
\*   "text"  the content is a text json.loads rejects ("" is the empty string)
\*   "json"  the content is a JSON object
EmptyText == [kind |-> "text", id |-> ""]
NonJsonTexts == {EmptyText, [kind |-> "text", id |-> "not json"]}
NoContent == [kind |-> "none", id |-> "None"]
ProviderErrors == {[kind |-> "raise", id |-> "APITimeoutError"], [kind |-> "raise", id |-> "APIConnectionError"]}

Confidence == {"high", "medium", "low"}

\* JSON objects a provider returns for a game report.  fields: the keys
\* present; summary, practice_focus: string lengths; key_insights: the
\* confidence of each item; action_items: the priority of each item;
\* questions_for_next_game: the number of items.
GameDocOk == [kind |-> "json", id |-> "gA", fields |-> {"summary", "key_insights", "action_items", "practice_focus", "questions_for_next_game"}, summary |-> 120, key_insights |-> <<"high", "medium", "low">>, action_items |-> <<"high", "low">>, practice_focus |-> 40, questions_for_next_game |-> 2]
GameDocOk2 == [GameDocOk EXCEPT !.id = "gB", !.summary = 500, !.questions_for_next_game = 3]
GameDocNoSummary == [GameDocOk EXCEPT !.id = "gC", !.fields = @ \ {"summary"}]
GameDocFourInsights == [GameDocOk EXCEPT !.id = "gD", !.key_insights = <<"high", "high", "low", "low">>]
GameDocBadEnum == [GameDocOk EXCEPT !.id = "gE", !.action_items = <<"urgent", "low">>]
GameDocs == {GameDocOk, GameDocOk2, GameDocNoSummary, GameDocFourInsights, GameDocBadEnum}

\* JSON objects a provider returns for a player report.  A text is
\* [len, terms]: terms are the validators' keywords that occur in the
\* lower-cased text.  The sections not listed (development_report,
\* player_profile.player_info, structured_data) conform whenever their key
\* is present.
PlayerSections == {"meta", "growth_summary", "development_report", "drill_plan", "motivational_message", "college_fit_indicator_v1", "player_profile", "structured_data"}
PlayerDocOk == [kind |-> "json", id |-> "pA", fields |-> PlayerSections, disclaimer |-> [len |-> 110, terms |-> {"guarantee"}], growth_summary |-> [len |-> 300, terms |-> {}], motivational_message |-> [len |-> 90, terms |-> {}], drill_plan |-> 3, label |-> [len |-> 30, terms |-> {}], headline |-> [len |-> 60, terms |-> {}]]
PlayerDocOk2 == [PlayerDocOk EXCEPT !.id = "pB", !.drill_plan = 5, !.disclaimer = [len |-> 80, terms |-> {"promise"}]]
PlayerDocNoMeta == [PlayerDocOk EXCEPT !.id = "pC", !.fields = @ \ {"meta"}]
PlayerDocSixDrills == [PlayerDocOk EXCEPT !.id = "pD", !.drill_plan = 6]
PlayerDocNoDisclaimerTerm == [PlayerDocOk EXCEPT !.id = "pE", !.disclaimer = [len |-> 110, terms |-> {}]]
PlayerDocMedical == [PlayerDocOk EXCEPT !.id = "pF", !.growth_summary = [len |-> 300, terms |-> {"treatment"}], !.label = [len |-> 40, terms |-> {"guaranteed"}]]
PlayerDocs == {PlayerDocOk, PlayerDocOk2, PlayerDocNoMeta, PlayerDocSixDrills, PlayerDocNoDisclaimerTerm, PlayerDocMedical}

\* what a call of client.chat.completions.create can end with: an
\* exception, or a response with this content
GameOutcomes == ProviderErrors \cup {NoContent} \cup NonJsonTexts \cup GameDocs
PlayerOutcomes == ProviderErrors \cup {NoContent} \cup NonJsonTexts \cup PlayerDocs

InRange(n, lo, hi) == lo <= n /\ n <= hi

AllIn(seq, S) == \A i \in 1..Len(seq) : seq[i] \in S

\* ReportContent(**data) raises no ValidationError
ReportContentValid(d) ==
    /\ {"summary", "key_insights", "action_items", "practice_focus", "questions_for_next_game"} \subseteq d.fields
    /\ InRange(d.summary, 50, 500)
    /\ InRange(Len(d.key_insights), 3, 3) /\ AllIn(d.key_insights, Confidence)
    /\ InRange(Len(d.action_items), 2, 2) /\ AllIn(d.action_items, Confidence)
    /\ InRange(d.practice_focus, 20, 300)
    /\ InRange(d.questions_for_next_game, 2, 3)

\* ReportMeta.validate_disclaimer
validate_disclaimer(t) == "guarantee" \in t.terms \/ "promise" \in t.terms

\* CollegeFitIndicator.validate_label
validate_label(t) == t.terms \cap {"guaranteed", "definitely", "will get", "assured"} = {}

\* PlayerProfile.validate_headline
validate_headline(t) == t.terms \cap {"guaranteed scholarship", "will be recruited", "college bound"} = {}

\* PlayerReportContent.validate_text_content
validate_text_content(t) ==
    /\ t.terms \cap {"diagnose", "treatment", "medication", "injury treatment", "see a doctor"} = {}
    /\ t.terms \cap {"guaranteed scholarship", "definitely will", "assured acceptance"} = {}

\* PlayerReportContent(**data) raises no ValidationError
PlayerReportContentValid(d) ==
    /\ PlayerSections \subseteq d.fields
    /\ InRange(d.disclaimer.len, 50, 1000) /\ validate_disclaimer(d.disclaimer)
    /\ InRange(d.growth_summary.len, 100, 2000) /\ validate_text_content(d.growth_summary)
    /\ InRange(d.motivational_message.len, 50, 500) /\ validate_text_content(d.motivational_message)
    /\ InRange(d.drill_plan, 3, 5)
    /\ InRange(d.label.len, 10, 150) /\ validate_label(d.label)
    /\ InRange(d.headline.len, 10, 200) /\ validate_headline(d.headline)


(* ---------------------------------------------------------------------- *)
(* Rate limiters (core/rate_limit.py, main.py)                             *)
(* ---------------------------------------------------------------------- *)
\* mutant: the comparison keeps an entry exactly one window old
CleanOldEntriesInclusive(entries, window_start) ==
    LET Newer(t) == t >= window_start IN SelectSeq(entries, Newer)

\* the list comprehension [t for t in store[key] if t > window_start]
CleanOldEntries(entries, window_start) ==
    LET Newer(t) == t > window_start IN SelectSeq(entries, Newer)

\* mutant: the comparison lets one request more through
LimitReachedStrict(entries, limit) == Len(entries) > limit

\* "Check limit": the request is refused when the cleaned list is full
LimitReached(entries, limit) == Len(entries) >= limit

\* mutant: an allowed request leaves no timestamp
RecordRequestForgotten(entries, current_time) == entries

\* "Record request"
RecordRequest(entries, current_time) == Append(entries, current_time)

\* one check of a key's list: [allowed, entries]
CheckWindow(entries, current_time, window, limit) ==
    LET cleaned == CleanOldEntries(entries, current_time - window)
    IN  IF LimitReached(cleaned, limit)
        THEN [allowed |-> FALSE, entries |-> cleaned]
        ELSE [allowed |-> TRUE, entries |-> RecordRequest(cleaned, current_time)]

\* f"Rate limit exceeded. Maximum {requests_per_hour} reports per hour."
ReportLimitMessage(requests_per_hour) ==
    <<"Rate limit exceeded. Maximum ", requests_per_hour, " reports per hour.">>

\* f"Rate limit exceeded. Maximum {requests_per_minute} requests per minute."
GeneralLimitMessage(requests_per_minute) ==
    <<"Rate limit exceeded. Maximum ", requests_per_minute, " requests per minute.">>

(* ---------------------------------------------------------------------- *)
(* State                                                                   *)
(* ---------------------------------------------------------------------- *)
VARIABLES
    openai_api_key,            \* settings.openai_api_key is set
    db,                        \* committed rows of reports / player_reports, by id
    orm,                       \* the ORM object of each row in the session using it
    req,                       \* the request each worker is handling
    started,                   \* requests begun so far
    minted,                    \* distinct share tokens drawn from secrets.token_urlsafe
    now,                       \* time.time()
    report_generation_store,   \* core/rate_limit.py _report_generation_store
    general_rate_limit_store,  \* core/rate_limit.py _general_rate_limit_store
    rate_limit_store,          \* main.py rate_limit_store
    RATE_LIMIT_REQUESTS,       \* main.py RATE_LIMIT_REQUESTS (environment)
    checks,                    \* limiter checks made so far
    lastCheck,                 \* the latest limiter check: arguments and result
    calc,                      \* a pure function applied to arguments, and its result
    granted,                   \* history: the timestamps of the checks each limiter allowed, by key
    mw,                        \* rate_limit_middleware: each request's position and locals
    running,                   \* the coroutine the event loop is executing
    counters,                  \* generate_game_report: start_time, prompt_tokens, completion_tokens
    telemetry                  \* the token counts and generation time stored with each game report

vars == <<openai_api_key, db, orm, req, started, minted, now, report_generation_store, general_rate_limit_store, rate_limit_store, RATE_LIMIT_REQUESTS, checks, lastCheck, calc, granted, mw, running, counters, telemetry>>

pipelineVars == <<openai_api_key, db, orm, req, started, minted>>
limiterVars == <<report_generation_store, general_rate_limit_store, rate_limit_store, RATE_LIMIT_REQUESTS, checks, lastCheck>>
middlewareVars == <<mw, running>>
telemetryVars == <<counters, telemetry>>
auxVars == <<calc, granted, mw, running, counters, telemetry>>

LimiterFunctions == {"check_report_generation_rate_limit", "check_general_rate_limit", "check_rate_limit"}

\* no function has been applied
NoCalc == [fn |-> "none", args |-> << >>, result |-> << >>, done |-> FALSE]

\* a request the middleware has not seen yet
IdleCheck == [pc |-> "idle", client_ip |-> "", current_time |-> 0, window_start |-> 0, allowed |-> FALSE]

\* None, for an optional integer; a value n is <<n>>
None == << >>

\* usages: history, the response.usage of each call that returned
NoCounters == [start_time |-> 0, prompt_tokens |-> None, completion_tokens |-> None, usages |-> << >>]

NoCheck == [fn |-> "none", key |-> "", limit |-> 0, window |-> 0, at |-> 0, before |-> << >>, after |-> << >>, allowed |-> FALSE, message |-> << >>]

IdleRequest == [pc |-> "idle", kind |-> "none", force |-> FALSE, was_regenerated |-> FALSE, game_ids |-> << >>, ngames |-> 0, share_token |-> NoToken, is_public |-> FALSE, rid |-> NoReport, existing |-> NoReport, keywords |-> {}, calls |-> 0, repairs |-> 0, last |-> NullJson, raised |-> "none", code |-> 0, detail |-> NoText]

\* mutant: the row is created already marked generating
PendingRowGenerating(kind, subject) ==
    [kind |-> kind, subject |-> subject, status |-> "generating", report_window |-> "null", report_json |-> NullJson, model_used |-> "null", prompt_version |-> "null", error_text |-> NoText, share_token |-> NoToken, is_public |-> FALSE]

\* a row as PlayerReport(player_id=..., status="pending") / the column
\* defaults leave it
PendingRow(kind, subject) ==
    [kind |-> kind, subject |-> subject, status |-> "pending", report_window |-> "null", report_json |-> NullJson, model_used |-> "null", prompt_version |-> "null", error_text |-> NoText, share_token |-> NoToken, is_public |-> FALSE]

\* the state after start-up, but for calc
InitProgram ==
    /\ openai_api_key \in BOOLEAN
    /\ db = << >>
    /\ orm = << >>
    /\ req = [p \in Procs |-> IdleRequest]
    /\ started = 0
    /\ minted = 0
    /\ now = 0
    /\ report_generation_store = [k \in Keys |-> << >>]
    /\ general_rate_limit_store = [k \in Keys |-> << >>]
    /\ rate_limit_store = [k \in Keys |-> << >>]
    /\ RATE_LIMIT_REQUESTS \in ConfiguredLimits
    /\ checks = 0
    /\ lastCheck = NoCheck
    /\ granted = [fn \in LimiterFunctions |-> [k \in Keys |-> << >>]]
    /\ mw = [p \in Procs |-> IdleCheck]
    /\ running = "none"
    /\ counters = [p \in Procs |-> NoCounters]
    /\ telemetry = {}

Init == InitProgram /\ calc = NoCalc


(* ---------------------------------------------------------------------- *)
(* Exceptions and messages                                                 *)
(* ---------------------------------------------------------------------- *)
\* str(e) of an exception raised by the provider call, by json.loads and by
\* the schema class
StrOf(e) ==
    CASE e = "JSONDecodeError" -> <<"Expecting value: line 1 column 1 (char 0)">>
      [] e = "ValidationError" -> <<"validation errors for ReportContent">>
      [] e = "TypeError" -> <<"the JSON object must be str, bytes or bytearray, not NoneType">>
      [] OTHER -> <<e>>

KeyNotConfigured == <<"OpenAI API key not configured">>

\* ValueError(f"Failed to generate valid report after repair: {e2}")
AfterRepairText(e2) == <<"Failed to generate valid report after repair: ">> \o StrOf(e2)

\* detail=f"Failed to generate report: {str(e)}"
FailedToGenerateDetail(text) == <<"Failed to generate report: ">> \o text

\* what json.loads(content) followed by ReportContent(**data) ends with
ParseAndValidate(content) ==
    IF content.kind = "none" THEN "TypeError"
    ELSE IF content.kind = "text" THEN "JSONDecodeError"
    ELSE IF ReportContentValid(content) THEN "ok"
    ELSE "ValidationError"

\* mutant: a JSON parse failure is not handed to the repair attempt
CaughtForRepairSchemaOnly == {"ValidationError"}

\* the exceptions the first try block hands to the repair attempt
CaughtForRepair == {"JSONDecodeError", "ValidationError"}

\* report_json = {...}: the validated content and the metadata
BuildReportJson(d, repaired) ==
    [kind |-> "json", id |-> d.id,
     fields |-> {"summary", "key_insights", "action_items", "practice_focus", "questions_for_next_game", "model_used", "risk_flags"},
     summary |-> d.summary,
     key_insights |-> d.key_insights,
     action_items |-> d.action_items,
     practice_focus |-> d.practice_focus,
     questions_for_next_game |-> d.questions_for_next_game,
     model_used |-> "gpt-4o",
     risk_flags |-> IF repaired THEN {"Report required one repair attempt"} ELSE {}]

\* mutant: the update marks the row completed and leaves the old body
UpdateExistingReportStatusOnly(row, report_json) ==
    [row EXCEPT !.status = "completed", !.error_text = NoText]

\* "Update existing report"
UpdateExistingReport(row, report_json) ==
    [row EXCEPT !.status = "completed", !.report_json = report_json, !.model_used = "gpt-4o", !.prompt_version = "v1", !.error_text = NoText]

\* "Create new report": Report(game_id=..., status="completed", ...)
NewCompletedReport(game, report_json) ==
    [PendingRow("game", game) EXCEPT !.status = "completed", !.report_json = report_json, !.model_used = "gpt-4o", !.prompt_version = "v1"]

\* mutant: the query filters on the wrong column and finds nothing
FirstReportOfNothing(game) == NoReport

\* db.query(Report).filter(Report.game_id == game.id).first()
FirstReportOf(game) ==
    LET ids == {i \in 1..Len(db) : db[i].kind = "game" /\ db[i].subject = game}
    IN  IF ids = {} THEN NoReport ELSE CHOOSE i \in ids : \A j \in ids : i <= j

(* ---------------------------------------------------------------------- *)
(* Game reports: generate_report and generate_game_report                  *)
(* ---------------------------------------------------------------------- *)
\* the request ends: the handler returns or raises
Finish(r, code, detail, raised) ==
    [r EXCEPT !.pc = "done", !.code = code, !.detail = detail, !.raised = raised]

\* an exception leaves generate_game_report; generate_report's except
\* clause answers HTTP 500
GameRaise(r, e, text) == Finish(r, 500, FailedToGenerateDetail(text), e)

\* generate_report up to the first provider call
generate_report(p, force_regenerate, has_stats) ==
    /\ req[p].pc = "idle"
    /\ started' = started + 1
    /\ LET existing_report == FirstReportOf(TheGame)
           r == [IdleRequest EXCEPT !.kind = "game", !.force = force_regenerate, !.existing = existing_report]
       IN  req' = [req EXCEPT ![p] =
                IF ~has_stats
                THEN Finish(r, 400, <<"Cannot generate report without game stats. Add stats first.">>, "none")
                ELSE IF existing_report # NoReport /\ ~force_regenerate
                THEN Finish([r EXCEPT !.rid = existing_report], 201, NoText, "none")
                ELSE IF ~openai_api_key
                THEN GameRaise(r, "ValueError", KeyNotConfigured)
                ELSE [r EXCEPT !.pc = "first_call", !.calls = 1]]
    /\ UNCHANGED <<openai_api_key, db, orm, minted, now, limiterVars>>

\* "Create or update report", then the handler returns the report
PersistGameReport(p, d, repaired) ==
    LET report_json == BuildReportJson(d, repaired)
        existing_report == req[p].existing
    IN  IF existing_report # NoReport
        THEN /\ orm' = [orm EXCEPT ![existing_report] = UpdateExistingReport(@, report_json)]
             /\ db' = [db EXCEPT ![existing_report] = UpdateExistingReport(orm[existing_report], report_json)]
             /\ req' = [req EXCEPT ![p] = Finish([@ EXCEPT !.rid = existing_report, !.last = d, !.was_regenerated = TRUE], 201, NoText, "none")]
        ELSE /\ orm' = Append(orm, NewCompletedReport(TheGame, report_json))
             /\ db' = Append(db, NewCompletedReport(TheGame, report_json))
             /\ req' = [req EXCEPT ![p] = Finish([@ EXCEPT !.rid = Len(db) + 1, !.last = d], 201, NoText, "none")]

\* the first provider call ends with outcome o
GameFirstResponse(p, o) ==
    /\ req[p].pc = "first_call"
    /\ IF o.kind = "raise"
       THEN /\ req' = [req EXCEPT ![p] = GameRaise([@ EXCEPT !.last = o], o.id, StrOf(o.id))]
            /\ UNCHANGED <<db, orm>>
       ELSE LET e == ParseAndValidate(o)
            IN  IF e = "ok" THEN PersistGameReport(p, o, FALSE)
                ELSE IF e \in CaughtForRepair
                THEN /\ req' = [req EXCEPT ![p] = [@ EXCEPT !.pc = "repair_call", !.last = o, !.calls = @ + 1, !.repairs = @ + 1]]
                     /\ UNCHANGED <<db, orm>>
                ELSE /\ req' = [req EXCEPT ![p] = GameRaise([@ EXCEPT !.last = o], e, StrOf(e))]
                     /\ UNCHANGED <<db, orm>>
    /\ UNCHANGED <<openai_api_key, started, minted, now, limiterVars>>

\* the repair call ends with outcome o
GameRepairResponse(p, o) ==
    /\ req[p].pc = "repair_call"
    /\ IF o.kind = "raise"
       THEN /\ req' = [req EXCEPT ![p] = GameRaise([@ EXCEPT !.last = o], o.id, StrOf(o.id))]
            /\ UNCHANGED <<db, orm>>
       ELSE LET e2 == ParseAndValidate(o)
            IN  IF e2 = "ok" THEN PersistGameReport(p, o, TRUE)
                ELSE IF e2 \in CaughtForRepair
                THEN /\ req' = [req EXCEPT ![p] = GameRaise([@ EXCEPT !.last = o], "ValueError", AfterRepairText(e2))]
                     /\ UNCHANGED <<db, orm>>
                ELSE /\ req' = [req EXCEPT ![p] = GameRaise([@ EXCEPT !.last = o], e2, StrOf(e2))]
                     /\ UNCHANGED <<db, orm>>
    /\ UNCHANGED <<openai_api_key, started, minted, now, limiterVars>>

\* the worker takes its next request
NextRequest(p) ==
    /\ req[p].pc = "done"
    /\ req' = [req EXCEPT ![p] = IdleRequest]
    /\ UNCHANGED <<openai_api_key, db, orm, started, minted, now, limiterVars>>


(* ---------------------------------------------------------------------- *)
(* Player reports: create_player_report and generate_player_report         *)
(* ---------------------------------------------------------------------- *)
\* the parameters generate_player_report declares (none has a default)
GeneratePlayerReportParams == <<"player", "games", "report">>

\* create_player_report calls it with three positional arguments and
\* correlation_id=correlation_id
RouterKeywords == {"correlation_id"}

\* Python's argument binding: the call raises TypeError unless every
\* keyword names a parameter not bound positionally and every parameter
\* is bound
Binds(params, positional, keywords) ==
    /\ positional <= Len(params)
    /\ keywords \subseteq {params[i] : i \in (positional + 1)..Len(params)}
    /\ positional + Cardinality(keywords) = Len(params)

compute_report_window(ngames) == IF ngames = 0 THEN "No games" ELSE "start-end"

\* mutant: the status assignment is missing
StartGeneratingWindowOnly(row, ngames) ==
    [row EXCEPT !.report_window = compute_report_window(ngames)]

\* report.status = "generating"; report.report_window = ...
StartGenerating(row, ngames) ==
    [row EXCEPT !.status = "generating", !.report_window = compute_report_window(ngames)]

\* mutant: the message is set but the status stays "generating"
FailNotConfiguredKeepsStatus(row) ==
    [row EXCEPT !.error_text = KeyNotConfigured]

\* if not settings.openai_api_key
FailNotConfigured(row) ==
    [row EXCEPT !.status = "failed", !.error_text = KeyNotConfigured]

\* if not content
FailEmptyResponse(row) ==
    [row EXCEPT !.status = "failed", !.error_text = <<"Empty response from OpenAI">>]

\* mutant: the handler records the message and forgets the status
FailJsonDecodeKeepsStatus(row, text) ==
    [row EXCEPT !.error_text = <<"Failed to parse AI response as JSON: ">> \o text]

\* except json.JSONDecodeError as e
FailJsonDecode(row, text) ==
    [row EXCEPT !.status = "failed", !.error_text = <<"Failed to parse AI response as JSON: ">> \o text]

\* mutant: the generic handler reuses the parse-failure message
FailExceptionParseMessage(row, text) ==
    [row EXCEPT !.status = "failed", !.error_text = <<"Failed to parse AI response as JSON: ">> \o text]

\* mutant: the generic handler records the message and forgets the status
FailExceptionKeepsStatus(row, text) ==
    [row EXCEPT !.error_text = <<"Error generating report: ">> \o text]

\* except Exception as e
FailException(row, text) ==
    [row EXCEPT !.status = "failed", !.error_text = <<"Error generating report: ">> \o text]

\* mutant: the report is completed without a share token
CompletePlayerReportNoToken(row, report_json, model, token) ==
    [row EXCEPT !.status = "completed", !.report_json = report_json, !.model_used = model, !.prompt_version = "player_passport_v1"]

\* "Update report": the parsed JSON is stored as it came
CompletePlayerReport(row, report_json, model, token) ==
    [row EXCEPT !.status = "completed", !.report_json = report_json, !.model_used = model, !.prompt_version = "player_passport_v1", !.share_token = token]

\* response.model: the provider names the snapshot that answered
ResponseModel(o) == IF o.id \in {"pA", "pC"} THEN "gpt-4o-2024-08-06" ELSE "gpt-4o"

Range(seq) == {seq[i] : i \in 1..Len(seq)}

\* order_by(PlayerGame.game_date.desc()).limit(n)
MostRecent(games, n) == {g \in games : Cardinality({h \in games : h > g}) < n}

\* "Get games to include": the player's games among game_ids, or the most
\* recent 5 games
ResolveGames(game_ids) ==
    IF game_ids = << >> THEN MostRecent(PlayerGameIds, RECENT_GAMES)
    ELSE PlayerGameIds \cap Range(game_ids)

\* mutant: the pending row is committed before the limiter is asked
create_player_report_RowBeforeLimit(p, owned, game_ids) ==
    /\ req[p].pc = "idle"
    /\ started' = started + 1
    /\ LET ngames == Cardinality(ResolveGames(game_ids))
           r == [IdleRequest EXCEPT !.kind = "player", !.game_ids = game_ids, !.ngames = ngames, !.keywords = RouterKeywords]
           c == CheckWindow(report_generation_store[TheUser], now, REPORT_WINDOW_SECONDS, REPORTS_PER_HOUR)
       IN  IF ~owned
           THEN /\ req' = [req EXCEPT ![p] = Finish(r, 404, <<"Player not found">>, "none")]
                /\ UNCHANGED <<db, orm, report_generation_store, lastCheck>>
           ELSE IF ngames < MIN_GAMES
           THEN /\ req' = [req EXCEPT ![p] = Finish(r, 400, <<"At least 3 games are required to generate a report">>, "none")]
                /\ UNCHANGED <<db, orm, report_generation_store, lastCheck>>
           ELSE /\ report_generation_store' = [report_generation_store EXCEPT ![TheUser] = c.entries]
                /\ lastCheck' = [fn |-> "check_report_generation_rate_limit", key |-> TheUser, limit |-> REPORTS_PER_HOUR, window |-> REPORT_WINDOW_SECONDS, at |-> now, before |-> report_generation_store[TheUser], after |-> c.entries, allowed |-> c.allowed, message |-> IF c.allowed THEN << >> ELSE ReportLimitMessage(REPORTS_PER_HOUR)]
                /\ db' = Append(db, PendingRow("player", ThePlayer))
                /\ orm' = Append(orm, PendingRow("player", ThePlayer))
                /\ IF ~c.allowed
                   THEN req' = [req EXCEPT ![p] = Finish([r EXCEPT !.rid = Len(db) + 1], 429, ReportLimitMessage(REPORTS_PER_HOUR), "none")]
                   ELSE req' = [req EXCEPT ![p] = [r EXCEPT !.pc = "call_generate", !.rid = Len(db) + 1]]
    /\ UNCHANGED <<openai_api_key, minted, now, general_rate_limit_store, rate_limit_store, RATE_LIMIT_REQUESTS, checks>>

\* create_player_report up to the committed pending row
create_player_report(p, owned, game_ids) ==
    /\ req[p].pc = "idle"
    /\ started' = started + 1
    /\ LET ngames == Cardinality(ResolveGames(game_ids))
           r == [IdleRequest EXCEPT !.kind = "player", !.game_ids = game_ids, !.ngames = ngames, !.keywords = RouterKeywords]
           c == CheckWindow(report_generation_store[TheUser], now, REPORT_WINDOW_SECONDS, REPORTS_PER_HOUR)
       IN  IF ~owned
           THEN /\ req' = [req EXCEPT ![p] = Finish(r, 404, <<"Player not found">>, "none")]
                /\ UNCHANGED <<db, orm, report_generation_store, lastCheck>>
           ELSE IF ngames < MIN_GAMES
           THEN /\ req' = [req EXCEPT ![p] = Finish(r, 400, <<"At least 3 games are required to generate a report">>, "none")]
                /\ UNCHANGED <<db, orm, report_generation_store, lastCheck>>
           ELSE /\ report_generation_store' = [report_generation_store EXCEPT ![TheUser] = c.entries]
                /\ lastCheck' = [fn |-> "check_report_generation_rate_limit", key |-> TheUser, limit |-> REPORTS_PER_HOUR, window |-> REPORT_WINDOW_SECONDS, at |-> now, before |-> report_generation_store[TheUser], after |-> c.entries, allowed |-> c.allowed, message |-> IF c.allowed THEN << >> ELSE ReportLimitMessage(REPORTS_PER_HOUR)]
                /\ IF ~c.allowed
                   THEN /\ req' = [req EXCEPT ![p] = Finish(r, 429, ReportLimitMessage(REPORTS_PER_HOUR), "none")]
                        /\ UNCHANGED <<db, orm>>
                   ELSE /\ db' = Append(db, PendingRow("player", ThePlayer))
                        /\ orm' = Append(orm, PendingRow("player", ThePlayer))
                        /\ req' = [req EXCEPT ![p] = [r EXCEPT !.pc = "call_generate", !.rid = Len(db) + 1]]
    /\ UNCHANGED <<openai_api_key, minted, now, general_rate_limit_store, rate_limit_store, RATE_LIMIT_REQUESTS, checks>>

\* A caller that hands generate_player_report the three arguments its
\* signature declares: a pending PlayerReport row it has committed, the
\* player and the games (no count is checked on this path)
invoke_generate_player_report(p, game_ids) ==
    /\ req[p].pc = "idle"
    /\ started' = started + 1
    /\ db' = Append(db, PendingRow("player", ThePlayer))
    /\ orm' = Append(orm, PendingRow("player", ThePlayer))
    /\ req' = [req EXCEPT ![p] = [IdleRequest EXCEPT !.kind = "direct", !.game_ids = game_ids, !.ngames = Cardinality(ResolveGames(game_ids)), !.pc = "call_generate", !.rid = Len(db) + 1]]
    /\ UNCHANGED <<openai_api_key, minted, now, limiterVars>>

\* mutant: the share_token column has no unique constraint
UniqueViolationNever(i, row) == FALSE

\* share_token is unique=True: the commit of row i raises IntegrityError
\* when another committed row holds its (non-null) token
UniqueViolation(i, row) ==
    /\ row.share_token # NoToken
    /\ \E j \in 1..Len(db) : j # i /\ db[j].share_token = row.share_token

\* generate_player_report returned the report: db.commit() and the answer
ReturnPlayerReport(p, row, o) ==
    /\ orm' = [orm EXCEPT ![req[p].rid] = row]
    /\ IF UniqueViolation(req[p].rid, row)
       THEN /\ db' = db
            /\ req' = [req EXCEPT ![p] = Finish([@ EXCEPT !.last = o], 500, <<"Internal Server Error">>, "IntegrityError")]
       ELSE /\ db' = [db EXCEPT ![req[p].rid] = row]
            /\ req' = [req EXCEPT ![p] = Finish([@ EXCEPT !.last = o], 201, NoText, "none")]

\* the call of generate_player_report: argument binding, then "Update
\* report status" on the session's object (nothing is committed here)
generate_player_report(p) ==
    /\ req[p].pc = "call_generate"
    /\ IF ~Binds(GeneratePlayerReportParams, 3, req[p].keywords)
       THEN /\ req' = [req EXCEPT ![p] = Finish(@, 500, <<"Internal Server Error">>, "TypeError")]
            /\ UNCHANGED orm
       ELSE /\ orm' = [orm EXCEPT ![req[p].rid] = StartGenerating(@, req[p].ngames)]
            /\ req' = [req EXCEPT ![p] = [@ EXCEPT !.pc = "generating"]]
    /\ UNCHANGED <<openai_api_key, db, started, minted, now, limiterVars>>

\* "Check for OpenAI API key", build_input_json and the provider call
PlayerCallProvider(p) ==
    /\ req[p].pc = "generating"
    /\ IF ~openai_api_key
       THEN ReturnPlayerReport(p, FailNotConfigured(orm[req[p].rid]), NullJson)
       ELSE /\ req' = [req EXCEPT ![p] = [@ EXCEPT !.pc = "player_call", !.calls = 1]]
            /\ UNCHANGED <<db, orm>>
    /\ UNCHANGED <<openai_api_key, started, minted, now, limiterVars>>

\* what generate_player_report makes of the provider call's outcome o
PlayerResult(row, o, model, token) ==
    IF o.kind = "raise" THEN FailException(row, StrOf(o.id))
    ELSE IF o.kind = "none" \/ o = EmptyText THEN FailEmptyResponse(row)
    ELSE IF o.kind = "text" THEN FailJsonDecode(row, StrOf("JSONDecodeError"))
    ELSE CompletePlayerReport(row, o, model, token)

\* the provider call ends with outcome o
PlayerResponse(p, o, token) ==
    /\ req[p].pc = "player_call"
    /\ LET row == PlayerResult(orm[req[p].rid], o, ResponseModel(o), token)
       IN  /\ ReturnPlayerReport(p, row, o)
           /\ minted' = IF token > minted THEN token ELSE minted
    /\ UNCHANGED <<openai_api_key, started, now, limiterVars>>


(* ---------------------------------------------------------------------- *)
(* Public report sharing: toggle_report_sharing and get_shared_report      *)
(* ---------------------------------------------------------------------- *)
\* toggle_report_sharing: the player and the report are looked up, the flag
\* is assigned and committed
\* mutant: a report gets a fresh link whenever its sharing is toggled
toggle_report_sharing_ResetsToken(p, owned, report_id, is_public) ==
    /\ req[p].pc = "idle"
    /\ started' = started + 1
    /\ LET r == [IdleRequest EXCEPT !.kind = "toggle", !.is_public = is_public]
           found == report_id \in 1..Len(db) /\ db[report_id].kind = "player" /\ db[report_id].subject = ThePlayer
       IN  IF ~owned
           THEN /\ req' = [req EXCEPT ![p] = Finish(r, 404, <<"Player not found">>, "none")]
                /\ UNCHANGED <<db, orm>>
           ELSE IF ~found
           THEN /\ req' = [req EXCEPT ![p] = Finish(r, 404, <<"Report not found">>, "none")]
                /\ UNCHANGED <<db, orm>>
           ELSE /\ db' = [db EXCEPT ![report_id].is_public = is_public, ![report_id].share_token = NoToken]
                /\ orm' = [orm EXCEPT ![report_id].is_public = is_public, ![report_id].share_token = NoToken]
                /\ req' = [req EXCEPT ![p] = Finish([r EXCEPT !.rid = report_id], 200, NoText, "none")]
    /\ UNCHANGED <<openai_api_key, minted, now, limiterVars>>

toggle_report_sharing(p, owned, report_id, is_public) ==
    /\ req[p].pc = "idle"
    /\ started' = started + 1
    /\ LET r == [IdleRequest EXCEPT !.kind = "toggle", !.is_public = is_public]
           found == report_id \in 1..Len(db) /\ db[report_id].kind = "player" /\ db[report_id].subject = ThePlayer
       IN  IF ~owned
           THEN /\ req' = [req EXCEPT ![p] = Finish(r, 404, <<"Player not found">>, "none")]
                /\ UNCHANGED <<db, orm>>
           ELSE IF ~found
           THEN /\ req' = [req EXCEPT ![p] = Finish(r, 404, <<"Report not found">>, "none")]
                /\ UNCHANGED <<db, orm>>
           ELSE /\ db' = [db EXCEPT ![report_id].is_public = is_public]
                /\ orm' = [orm EXCEPT ![report_id].is_public = is_public]
                /\ req' = [req EXCEPT ![p] = Finish([r EXCEPT !.rid = report_id], 200, NoText, "none")]
    /\ UNCHANGED <<openai_api_key, minted, now, limiterVars>>

\* mutant: the query forgets the is_public condition
SharedMatchesAnyVisibility(share_token) ==
    {i \in 1..Len(db) : db[i].kind = "player" /\ db[i].share_token = share_token}

\* the rows selected by share_token == share_token and is_public == True
SharedMatches(share_token) ==
    {i \in 1..Len(db) : db[i].kind = "player" /\ db[i].share_token = share_token /\ db[i].is_public}

\* get_shared_report: scalar_one_or_none() of the selected rows
get_shared_report(p, share_token) ==
    /\ req[p].pc = "idle"
    /\ started' = started + 1
    /\ LET r == [IdleRequest EXCEPT !.kind = "shared", !.share_token = share_token]
           matches == SharedMatches(share_token)
       IN  req' = [req EXCEPT ![p] =
                IF matches = {} THEN Finish(r, 404, <<"Report not found">>, "none")
                ELSE IF Cardinality(matches) = 1 THEN Finish([r EXCEPT !.rid = CHOOSE i \in matches : TRUE], 200, NoText, "none")
                ELSE Finish(r, 500, <<"Internal Server Error">>, "MultipleResultsFound")]
    /\ UNCHANGED <<openai_api_key, db, orm, minted, now, limiterVars>>

(* ---------------------------------------------------------------------- *)
(* The limiters called on their own, and the clock                         *)
(* ---------------------------------------------------------------------- *)
CheckRecord(fn, key, limit, window, before, c, message) ==
    [fn |-> fn, key |-> key, limit |-> limit, window |-> window, at |-> now, before |-> before, after |-> c.entries, allowed |-> c.allowed, message |-> IF c.allowed THEN << >> ELSE message]

check_report_generation_rate_limit(user_id, requests_per_hour) ==
    /\ checks' = checks + 1
    /\ LET c == CheckWindow(report_generation_store[user_id], now, REPORT_WINDOW_SECONDS, requests_per_hour)
       IN  /\ report_generation_store' = [report_generation_store EXCEPT ![user_id] = c.entries]
           /\ lastCheck' = CheckRecord("check_report_generation_rate_limit", user_id, requests_per_hour, REPORT_WINDOW_SECONDS, report_generation_store[user_id], c, ReportLimitMessage(requests_per_hour))
    /\ UNCHANGED <<pipelineVars, now, general_rate_limit_store, rate_limit_store, RATE_LIMIT_REQUESTS>>

\* mutant: the general limiter keeps its lists in the report limiter's store
check_general_rate_limit_SharedStore(client_ip, requests_per_minute) ==
    /\ checks' = checks + 1
    /\ LET c == CheckWindow(report_generation_store[client_ip], now, GENERAL_WINDOW_SECONDS, requests_per_minute)
       IN  /\ report_generation_store' = [report_generation_store EXCEPT ![client_ip] = c.entries]
           /\ general_rate_limit_store' = [general_rate_limit_store EXCEPT ![client_ip] = c.entries]
           /\ lastCheck' = CheckRecord("check_general_rate_limit", client_ip, requests_per_minute, GENERAL_WINDOW_SECONDS, general_rate_limit_store[client_ip], c, GeneralLimitMessage(requests_per_minute))
    /\ UNCHANGED <<pipelineVars, now, rate_limit_store, RATE_LIMIT_REQUESTS>>

check_general_rate_limit(client_ip, requests_per_minute) ==
    /\ checks' = checks + 1
    /\ LET c == CheckWindow(general_rate_limit_store[client_ip], now, GENERAL_WINDOW_SECONDS, requests_per_minute)
       IN  /\ general_rate_limit_store' = [general_rate_limit_store EXCEPT ![client_ip] = c.entries]
           /\ lastCheck' = CheckRecord("check_general_rate_limit", client_ip, requests_per_minute, GENERAL_WINDOW_SECONDS, general_rate_limit_store[client_ip], c, GeneralLimitMessage(requests_per_minute))
    /\ UNCHANGED <<pipelineVars, now, report_generation_store, rate_limit_store, RATE_LIMIT_REQUESTS>>

check_rate_limit(client_ip) ==
    /\ checks' = checks + 1
    /\ LET c == CheckWindow(rate_limit_store[client_ip], now, RATE_LIMIT_WINDOW, RATE_LIMIT_REQUESTS)
       IN  /\ rate_limit_store' = [rate_limit_store EXCEPT ![client_ip] = c.entries]
           /\ lastCheck' = CheckRecord("check_rate_limit", client_ip, RATE_LIMIT_REQUESTS, RATE_LIMIT_WINDOW, rate_limit_store[client_ip], c, << >>)
    /\ UNCHANGED <<pipelineVars, now, report_generation_store, general_rate_limit_store, RATE_LIMIT_REQUESTS>>

\* time.time() moves on
Tick(t) ==
    /\ t > now
    /\ now' = t
    /\ UNCHANGED <<pipelineVars, limiterVars>>

(* ---------------------------------------------------------------------- *)
(* Specifications                                                          *)
(* ---------------------------------------------------------------------- *)
\* The report pipelines, one request after another.  Both handlers are
\* coroutines that never await between their first and last statement (the
\* provider client is the blocking one), so a worker process runs each
\* request to its end before it takes the next.
\* No handler removes a game's stats, so a game that has a report has stats.
StatsInputs == IF FirstReportOf(TheGame) = NoReport THEN BOOLEAN ELSE {TRUE}

\* secrets.token_urlsafe(32) is drawn only for a response that parses.  Only
\* the equality of tokens matters: the value drawn is one a committed row
\* already holds (they are 1..minted) or a new one, named minted + 1.
TokenInputs(o) == IF o.kind = "json" THEN 1..(minted + 1) ELSE {NoToken}

Next ==
    \/ \E p \in Workers, force_regenerate \in BOOLEAN, has_stats \in StatsInputs : started < MaxRequests /\ generate_report(p, force_regenerate, has_stats) /\ UNCHANGED auxVars
    \/ \E p \in Workers, o \in GameOutcomes : GameFirstResponse(p, o) /\ UNCHANGED auxVars
    \/ \E p \in Workers, o \in GameOutcomes : GameRepairResponse(p, o) /\ UNCHANGED auxVars
    \/ \E p \in Workers, owned \in BOOLEAN, game_ids \in GameIdLists : started < MaxRequests /\ create_player_report(p, owned, game_ids) /\ UNCHANGED auxVars
    \/ \E p \in Workers, game_ids \in GameIdLists : started < MaxRequests /\ invoke_generate_player_report(p, game_ids) /\ UNCHANGED auxVars
    \/ \E p \in Workers : generate_player_report(p) /\ UNCHANGED auxVars
    \/ \E p \in Workers : PlayerCallProvider(p) /\ UNCHANGED auxVars
    \/ \E p \in Workers, o \in PlayerOutcomes : \E token \in TokenInputs(o) : PlayerResponse(p, o, token) /\ UNCHANGED auxVars
    \/ \E p \in Workers : NextRequest(p) /\ UNCHANGED auxVars

Spec == Init /\ [][Next]_vars

\* the limiters alone
NextRate ==
    \/ \E user_id \in Keys, requests_per_hour \in Limits : checks < MaxChecks /\ check_report_generation_rate_limit(user_id, requests_per_hour) /\ UNCHANGED auxVars
    \/ \E client_ip \in Keys, requests_per_minute \in Limits : checks < MaxChecks /\ check_general_rate_limit(client_ip, requests_per_minute) /\ UNCHANGED auxVars
    \/ \E client_ip \in Keys : checks < MaxChecks /\ check_rate_limit(client_ip) /\ UNCHANGED auxVars
    \/ \E t \in Instants : Tick(t) /\ UNCHANGED auxVars

SpecRate == Init /\ [][NextRate]_vars

\* history: the check just made returned True at this time
LogGranted(fn, key) ==
    granted' = IF lastCheck'.allowed THEN [granted EXCEPT ![fn][key] = Append(@, now)] ELSE granted

\* the report-generation limiter as create_player_report calls it: one
\* user, requests_per_hour=10
NextHour ==
    \/ checks < MaxHourChecks /\ check_report_generation_rate_limit(TheUser, REPORTS_PER_HOUR) /\ LogGranted("check_report_generation_rate_limit", TheUser) /\ UNCHANGED <<calc, middlewareVars, telemetryVars>>
    \/ \E t \in Instants : Tick(t) /\ UNCHANGED auxVars

SpecHour == Init /\ [][NextHour]_vars

\* create_player_report requests of one user, one after another
NextLimit ==
    \/ \E p \in Workers, owned \in BOOLEAN, game_ids \in GameIdLists : started < MaxPlayerRequests /\ create_player_report(p, owned, game_ids) /\ UNCHANGED auxVars
    \/ \E p \in Workers : generate_player_report(p) /\ UNCHANGED auxVars
    \/ \E p \in Workers : NextRequest(p) /\ UNCHANGED auxVars

SpecLimit == Init /\ [][NextLimit]_vars

\* no request is being handled: the handlers never await before they
\* return, so the event loop runs them one after another
Quiet == \A q \in Procs : req[q].pc \in {"idle", "done"}

\* the share tokens a caller can present: those handed out, and another
TokensPresented == 1..(minted + 1)

\* the provider outcomes used where the content of a report does not
\* matter: two documents, a response without content and an exception
FewPlayerOutcomes == {PlayerDocOk, PlayerDocOk2, NoContent, [kind |-> "raise", id |-> "APITimeoutError"]}

\* generate_player_report called with its declared arguments, request after
\* request for the same player; each of the two request slots keeps its
\* finished request until it takes another
NextRepeat ==
    \/ \E p \in Procs, game_ids \in GameIdLists : Quiet /\ started < MaxRequests /\ invoke_generate_player_report(p, game_ids) /\ UNCHANGED auxVars
    \/ \E p \in Procs : generate_player_report(p) /\ UNCHANGED auxVars
    \/ \E p \in Procs : PlayerCallProvider(p) /\ UNCHANGED auxVars
    \/ \E p \in Procs, o \in FewPlayerOutcomes : \E token \in TokenInputs(o) : PlayerResponse(p, o, token) /\ UNCHANGED auxVars
    \/ \E p \in Procs : NextRequest(p) /\ UNCHANGED auxVars

SpecRepeat == Init /\ [][NextRepeat]_vars

\* generate_player_report called with its declared arguments, and the
\* sharing of the reports it completes
NextShare ==
    \/ \E p \in Workers, owned \in BOOLEAN, game_ids \in GameIdLists : started < MaxShareRequests /\ create_player_report(p, owned, game_ids) /\ UNCHANGED auxVars
    \/ \E p \in Workers : started < MaxShareRequests /\ invoke_generate_player_report(p, << >>) /\ UNCHANGED auxVars
    \/ \E p \in Workers : generate_player_report(p) /\ UNCHANGED auxVars
    \/ \E p \in Workers : PlayerCallProvider(p) /\ UNCHANGED auxVars
    \/ \E p \in Workers, o \in FewPlayerOutcomes : \E token \in TokenInputs(o) : PlayerResponse(p, o, token) /\ UNCHANGED auxVars
    \/ \E p \in Workers, owned \in BOOLEAN, report_id \in 1..(Len(db) + 1), is_public \in BOOLEAN : started < MaxShareRequests /\ toggle_report_sharing(p, owned, report_id, is_public) /\ UNCHANGED auxVars
    \/ \E p \in Workers, share_token \in TokensPresented : started < MaxShareRequests /\ get_shared_report(p, share_token) /\ UNCHANGED auxVars
    \/ \E p \in Workers : NextRequest(p) /\ UNCHANGED auxVars

SpecShare == Init /\ [][NextShare]_vars


(* ---------------------------------------------------------------------- *)
(* Properties                                                              *)
(* ---------------------------------------------------------------------- *)
Terminal == {"completed", "failed"}

HasBody(row) == row.report_json # NullJson
HasError(row) == row.error_text # NoText

Rows(kind) == {i \in 1..Len(db) : db[i].kind = kind}

\* C1: when a create_player_report request has ended, normally or with an
\* error, the PlayerReport row it created is completed or failed.
C1_RequestEndsTerminal ==
    \A p \in Procs :
        (req[p].pc = "done" /\ req[p].kind = "player" /\ req[p].rid # NoReport)
            => db[req[p].rid].status \in Terminal

\* C2: in every state, for the committed row and for the session's object
\* of every report of both variants: a body only when completed, an error
\* message only when failed, and exactly one of the two once the status is
\* completed or failed.
BodyErrorMatchStatus(row) ==
    /\ HasBody(row) => row.status = "completed"
    /\ HasError(row) => row.status = "failed"
    /\ row.status \in Terminal => (HasBody(row) # HasError(row))

C2_BodyAndErrorFollowStatus ==
    \A i \in 1..Len(db) : BodyErrorMatchStatus(db[i]) /\ BodyErrorMatchStatus(orm[i])

\* C2 witness: a failed player report with its message beside a completed
\* player report and a completed game report with their bodies
C2_Witness ==
    /\ \E i \in Rows("player") : db[i].status = "failed" /\ HasError(db[i]) /\ ~HasBody(db[i])
    /\ \E i \in Rows("player") : db[i].status = "completed" /\ HasBody(db[i])
    /\ \E i \in Rows("game") : db[i].status = "completed" /\ HasBody(db[i]) /\ ~HasError(db[i])

\* the status of report i changes in this step (objects of the session)
StatusStep(i) == <<orm[i].status, orm'[i].status>>

\* this step is a forced regeneration writing report i
ForcedRegenerationOf(i) ==
    \E p \in Procs : req[p].kind = "game" /\ req[p].force /\ req[p].existing = i /\ req'[p].pc = "done"

PlayerKinds == {"player", "direct"}

\* a provider response (not an exception) the variant's parser or schema
\* validator rejects
IsResponse(o) == o # NullJson /\ o.kind \in {"none", "text", "json"}

Rejected(kind, o) ==
    /\ IsResponse(o)
    /\ \/ o.kind \in {"none", "text"}
       \/ o.kind = "json" /\ (IF kind = "game" THEN ~ReportContentValid(o) ELSE ~PlayerReportContentValid(o))

Ended(p) == req[p].pc = "done"

C5_CompletedBodyValid ==
    \A i \in 1..Len(db) :
        db[i].status = "completed" =>
            IF db[i].kind = "game" THEN ReportContentValid(db[i].report_json)
            ELSE PlayerReportContentValid(db[i].report_json)

ValidationFailureTexts ==
    {AfterRepairText(e) : e \in {"JSONDecodeError", "ValidationError"}}
        \cup {<<"Failed to parse AI response as JSON: ">> \o StrOf("JSONDecodeError")}

\* the request ends in this step, its only provider call having raised
EndsOnProviderError(p) ==
    /\ req[p].pc # "done" /\ req'[p].pc = "done"
    /\ req'[p].calls = 1 /\ req'[p].last # NullJson /\ req'[p].last.kind = "raise"

PipelineFailure(p) ==
    \/ ~openai_api_key
    \/ req[p].last # NullJson /\ (req[p].last.kind = "raise" \/ Rejected(req[p].kind, req[p].last))

\* the request got as far as calling its generator
CalledGenerator(p) ==
    \/ req[p].kind = "game" /\ req[p].code \notin {400} /\ ~(req[p].existing # NoReport /\ ~req[p].force)
    \/ req[p].kind \in PlayerKinds /\ req[p].rid # NoReport

StoreOf(fn) ==
    CASE fn = "check_report_generation_rate_limit" -> report_generation_store
      [] fn = "check_general_rate_limit" -> general_rate_limit_store
      [] OTHER -> rate_limit_store

\* C10: a check drops the key's timestamps that are not newer than now
\* minus the window, allows the request iff the number left is below the
\* limit, and leaves in the key's list the timestamps kept, followed by now
\* exactly when the request was allowed.
C10_CheckContract ==
    lastCheck.fn # "none" =>
        LET c == lastCheck
            cutoff == c.at - c.window
            kept == {i \in 1..Len(c.before) : c.before[i] > cutoff}
            n == Cardinality(kept)
            first == Len(c.before) - n
        IN  /\ c.allowed = (n < c.limit)
            /\ Len(c.after) = n + (IF c.allowed THEN 1 ELSE 0)
            /\ \A i \in 1..Len(c.before) : (i \in kept) = (i > first)
            /\ \A i \in 1..n : c.after[i] = c.before[first + i]
            /\ c.allowed => c.after[n + 1] = c.at
            /\ StoreOf(c.fn)[c.key] = c.after

\* C10 witness: a denied check that dropped an expired timestamp
C10_Witness ==
    /\ lastCheck.fn # "none"
    /\ ~lastCheck.allowed
    /\ Len(lastCheck.after) < Len(lastCheck.before)
    /\ Len(lastCheck.after) = lastCheck.limit

\* a check that allowed the request after dropping a timestamp exactly one
\* window old
BoundaryExpiryReached ==
    /\ lastCheck.fn # "none"
    /\ lastCheck.allowed
    /\ \E i \in 1..Len(lastCheck.before) : lastCheck.before[i] = lastCheck.at - lastCheck.window
    /\ Len(lastCheck.before) = lastCheck.limit

Last(seq) == seq[Len(seq)]

\* C11: with limit 10 per hour and one key, starting from an empty window:
\* each of the first 10 checks is allowed; the 11th check made inside the
\* window of those 10 is denied; a denied check leaves the recorded
\* requests as they are; and a check made once a full window has passed
\* since the last allowed request is allowed.
C11_TenThenDenied ==
    (lastCheck.fn = "check_report_generation_rate_limit" /\ lastCheck.key = TheUser /\ lastCheck.limit = 10) =>
        LET c == lastCheck IN
        /\ checks <= 10 => c.allowed
        /\ (checks = 11 /\ now < 3600) => (~c.allowed /\ Len(c.after) = 10)
        /\ (Len(c.before) = 10 /\ c.at - c.before[1] < 3600) => ~c.allowed
        /\ (~c.allowed /\ c.before # << >>) => Last(c.after) = Last(c.before)
        /\ (c.before # << >> /\ c.at - Last(c.before) >= 3600) => (c.allowed /\ c.after = <<c.at>>)

\* C11 witness: the 12th check, one hour after ten allowed requests and a
\* denied one, is allowed
C11_Witness ==
    /\ checks = 12
    /\ lastCheck.limit = 10
    /\ Len(lastCheck.before) = 10
    /\ \A i \in 1..10 : lastCheck.before[i] = 0
    /\ lastCheck.at = 3600
    /\ lastCheck.allowed

\* create_player_report begins for p in this step, gets past the player and
\* game-count checks, and finds 10 requests of the user inside the last hour
DeniedByLimiter(p) ==
    /\ req[p].pc = "idle" /\ req'[p].pc # "idle" /\ req'[p].kind = "player"
    /\ req'[p].code \notin {404, 400}
    /\ Cardinality({i \in 1..Len(report_generation_store[TheUser]) : report_generation_store[TheUser][i] > now - 3600}) >= 10

\* C12: a create_player_report request the report-generation limiter
\* denies ends at once with HTTP 429 and the limiter's message: no
\* PlayerReport row is created or changed (so no failed report appears),
\* generate_player_report is not called and no provider call is made.
C12_DenialRejects ==
    [][ \A p \in Procs :
          DeniedByLimiter(p) =>
              /\ req'[p].pc = "done"
              /\ req'[p].code = 429
              /\ req'[p].detail = <<"Rate limit exceeded. Maximum ", 10, " reports per hour.">>
              /\ req'[p].raised = "none"
              /\ req'[p].rid = NoReport
              /\ req'[p].calls = 0
              /\ db' = db /\ orm' = orm
              /\ report_generation_store' = report_generation_store ]_vars

\* C12 witness: the 11th request of the hour was answered 429, the ten
\* rows of the ten requests before it being all there is
C12_Witness ==
    \E p \in Procs : /\ Ended(p) /\ req[p].kind = "player" /\ req[p].code = 429
                     /\ req[p].rid = NoReport
                     /\ Len(db) = 10
                     /\ Len(report_generation_store[TheUser]) = 10

\* create_player_report begins for p in this step, finds the player and
\* resolves the request to fewer than 3 games
TooFewGames(p) ==
    /\ req[p].pc = "idle" /\ req'[p].pc # "idle" /\ req'[p].kind = "player"
    /\ req'[p].code # 404
    /\ req'[p].ngames < 3

\* C13: a create_player_report request that resolves to fewer than 3 games
\* ends at once with HTTP 400: the committed rows and the session's
\* objects are unchanged, the limiter is not asked, generate_player_report
\* is not called and no provider call is made.
C13_TooFewGamesRejected ==
    [][ \A p \in Procs :
          TooFewGames(p) =>
              /\ req'[p].pc = "done"
              /\ req'[p].code = 400
              /\ req'[p].detail = <<"At least 3 games are required to generate a report">>
              /\ req'[p].rid = NoReport
              /\ req'[p].calls = 0
              /\ db' = db /\ orm' = orm
              /\ report_generation_store' = report_generation_store ]_vars

\* C13 witness: a request naming two games was answered 400 while an
\* earlier request with three games had its row created
C13_Witness ==
    \E p \in Procs : /\ Ended(p) /\ req[p].kind = "player" /\ req[p].code = 400
                     /\ req[p].game_ids = <<1, 2>> /\ req[p].ngames = 2
                     /\ req[p].rid = NoReport
                     /\ Rows("player") # {}

\* a provider call of p's request is in flight
CallInFlight(p) == req[p].pc \in {"first_call", "repair_call", "player_call"}

GameCallWithoutRow ==
    \E p \in Procs : req[p].pc = "first_call" /\ req[p].kind = "game" /\ Rows("game") = {}

\* the report rows of the game
GameRows == {i \in 1..Len(db) : db[i].kind = "game" /\ db[i].subject = TheGame}

\* generate_report begins for p in this step, finds the game's stats, is not
\* forced, and the game has a report
UnforcedWithReport(p) ==
    /\ req[p].pc = "idle" /\ req'[p].pc # "idle" /\ req'[p].kind = "game"
    /\ req'[p].code # 400
    /\ ~req'[p].force
    /\ GameRows # {}

\* C15: a generate_report request with force_regenerate false for a game
\* that has a report returns at once that report, unchanged, with
\* was_regenerated false, and makes no provider call; so a request that is
\* not forced calls the provider only while the game has no report, and a
\* game that has a report keeps it.
C15_UnforcedShortCircuit ==
    [][ \A p \in Procs :
          /\ UnforcedWithReport(p) =>
                /\ req'[p].pc = "done"
                /\ req'[p].code = 201
                /\ req'[p].rid \in GameRows
                /\ ~req'[p].was_regenerated
                /\ req'[p].calls = 0
                /\ db' = db /\ orm' = orm
          /\ (req'[p].kind = "game" /\ ~req'[p].force /\ req'[p].calls > 0 /\ req'[p].pc # "done") => GameRows = {}
          /\ GameRows \subseteq GameRows' ]_vars

\* C15 witness: an unforced request was answered with the report a request
\* before it generated
C15_Witness ==
    \E p \in Procs : /\ Ended(p) /\ req[p].kind = "game" /\ ~req[p].force
                     /\ req[p].existing # NoReport /\ req[p].rid = req[p].existing
                     /\ req[p].code = 201 /\ req[p].calls = 0 /\ ~req[p].was_regenerated
                     /\ db[req[p].rid].status = "completed"

\* the forced generate_report request of p, for a game that has report i,
\* succeeds in this step
ForcedSuccess(p, i) ==
    /\ req[p].pc \in {"first_call", "repair_call"} /\ req'[p].pc = "done"
    /\ req'[p].kind = "game" /\ req'[p].force
    /\ req'[p].code = 201
    /\ i \in GameRows

\* C16: a successful generate_report request with force_regenerate true for
\* a game that has a report writes that same row: same id, status
\* completed, the body built from the new response, no error message;
\* every other row is unchanged and the game still has one report row.
C16_ForcedOverwritesRow ==
    [][ \A p \in Procs : \A i \in 1..Len(db) :
          ForcedSuccess(p, i) =>
              /\ Len(db') = Len(db)
              /\ req'[p].rid = i
              /\ req'[p].was_regenerated
              /\ db'[i].kind = "game" /\ db'[i].subject = TheGame
              /\ db'[i].status = "completed"
              /\ db'[i].report_json.id = req'[p].last.id
              /\ ("Report required one repair attempt" \in db'[i].report_json.risk_flags) = (req'[p].repairs = 1)
              /\ ~HasError(db'[i])
              /\ \A j \in 1..Len(db) : j # i => db'[j] = db[j]
              /\ GameRows' = {i} ]_vars

\* C16 witness: a forced request replaced the body of the game's report by
\* the one built from its own response
C16_Witness ==
    \E p \in Procs : /\ Ended(p) /\ req[p].kind = "game" /\ req[p].force
                     /\ req[p].existing # NoReport /\ req[p].rid = req[p].existing
                     /\ req[p].code = 201 /\ req[p].was_regenerated
                     /\ req[p].last.id = "gB" /\ db[req[p].rid].report_json.id = "gB"
                     /\ GameRows = {req[p].rid}

\* q's generation for the player completed and was committed before p's
\* began, and p's request resolves to the same set of games (the clock has
\* not moved since, so p's request falls inside any time-to-live)
RepeatsCompleted(p, q) ==
    /\ p # q
    /\ req[p].kind \in PlayerKinds /\ req[q].kind \in PlayerKinds
    /\ Ended(q) /\ req[q].rid # NoReport /\ req[p].rid # NoReport
    /\ req[q].rid < req[p].rid
    /\ db[req[q].rid].status = "completed"
    /\ ResolveGames(req[p].game_ids) = ResolveGames(req[q].game_ids)

\* C17: a player-report generation requested for the same player and the
\* same set of games within an hour of a first successful generation makes
\* no provider call and ends completed with the first generation's body.
C17_ServedFromCache ==
    \A p \in Procs, q \in Procs :
        RepeatsCompleted(p, q) =>
            /\ req[p].calls = 0
            /\ Ended(p) => /\ db[req[p].rid].status = "completed"
                           /\ db[req[p].rid].report_json = db[req[q].rid].report_json

\* C18: the cache entry does not depend on the order of the game ids: a
\* generation requested with the ids of a completed generation listed in
\* another order is a cache hit and makes no provider call.
C18_OrderIndependentLookup ==
    \A p \in Procs, q \in Procs :
        (/\ RepeatsCompleted(p, q)
         /\ req[p].game_ids # << >> /\ req[q].game_ids # << >>
         /\ req[p].game_ids # req[q].game_ids
         /\ Range(req[p].game_ids) = Range(req[q].game_ids)) => req[p].calls = 0

HasToken(row) == row.share_token # NoToken

\* C19: for player reports, persisted or in a session: a report has a share
\* token iff it is completed; the token is assigned in the step that sets
\* status completed and never changes afterwards; no two persisted reports
\* hold the same token.
C19_ShareTokenWithCompleted ==
    [][ /\ \A i \in 1..Len(db') :
              db'[i].kind = "player" =>
                  /\ HasToken(db'[i]) = (db'[i].status = "completed")
                  /\ HasToken(orm'[i]) = (orm'[i].status = "completed")
        /\ \A i \in 1..Len(db) :
              db[i].kind = "player" =>
                  /\ orm'[i].share_token # orm[i].share_token =>
                        (~HasToken(orm[i]) /\ orm[i].status = "generating" /\ orm'[i].status = "completed")
                  /\ db'[i].share_token # db[i].share_token =>
                        (~HasToken(db[i]) /\ db[i].status = "pending" /\ db'[i].status = "completed")
                  /\ (orm'[i].status = "completed" /\ orm[i].status # "completed") => HasToken(orm'[i])
        /\ \A i \in 1..Len(db'), j \in 1..Len(db') :
              (i # j /\ HasToken(db'[i])) => db'[i].share_token # db'[j].share_token ]_vars

\* C19 witness: two completed reports with different tokens and a failed
\* one without, after the sharing flag of a completed one was switched on
C19_Witness ==
    \E i \in Rows("player"), j \in Rows("player"), k \in Rows("player") :
        /\ db[i].status = "completed" /\ db[j].status = "completed" /\ i # j
        /\ HasToken(db[i]) /\ HasToken(db[j]) /\ db[i].share_token # db[j].share_token
        /\ db[i].is_public
        /\ db[k].status = "failed" /\ ~HasToken(db[k])

\* the commit of a completed report was refused because its token was taken
TokenCollisionRefused ==
    \E p \in Procs : /\ Ended(p) /\ req[p].raised = "IntegrityError"
                     /\ db[req[p].rid].status = "pending" /\ ~HasToken(db[req[p].rid])

\* p's request handled in this step is get_shared_report
LooksUpShared(p) == req[p].pc = "idle" /\ req'[p].kind = "shared"

\* p's request handled in this step is a toggle_report_sharing that sets
\* the flag of report i to v
Toggles(p, i, v) ==
    /\ req[p].pc = "idle" /\ req'[p].kind = "toggle"
    /\ req'[p].code = 200 /\ req'[p].rid = i /\ req'[p].is_public = v

\* C20: get_shared_report(token) returns a report exactly when a report
\* holds that token and its is_public flag is true at that moment, and it
\* returns that report; otherwise it answers 404.  A report is created with
\* the flag false, and the flag changes only when toggle_report_sharing
\* sets it: so a new report is not retrievable by its token until the flag
\* is set to true and is unretrievable again once it is set back to false.
C20_SharedOnlyWhilePublic ==
    [][ /\ \A p \in Procs :
              LooksUpShared(p) =>
                  LET t == req'[p].share_token
                      public == {i \in 1..Len(db) : db[i].share_token = t /\ db[i].is_public = TRUE}
                  IN  /\ req'[p].pc = "done"
                      /\ req'[p].code \in {200, 404}
                      /\ (req'[p].code = 200) = (public # {})
                      /\ req'[p].code = 200 => (req'[p].rid \in public /\ db[req'[p].rid].status = "completed")
                      /\ req'[p].code = 404 => req'[p].rid = NoReport
                      /\ db' = db
        /\ \A i \in (Len(db) + 1)..Len(db') : db'[i].is_public = FALSE
        /\ \A i \in 1..Len(db) :
              db'[i].is_public # db[i].is_public => \E p \in Procs : Toggles(p, i, db'[i].is_public) ]_vars

\* C20 witness: a report made public by toggle_report_sharing was returned
\* for its token
C20_Witness ==
    \E p \in Procs : /\ Ended(p) /\ req[p].kind = "shared" /\ req[p].code = 200
                     /\ req[p].rid # NoReport
                     /\ db[req[p].rid].share_token = req[p].share_token
                     /\ db[req[p].rid].is_public

\* the token of a completed report whose flag is false was answered 404
PrivateReportNotFound ==
    \E p \in Procs : /\ Ended(p) /\ req[p].kind = "shared" /\ req[p].code = 404
                     /\ \E i \in Rows("player") : /\ db[i].status = "completed"
                                                   /\ db[i].share_token = req[p].share_token
                                                   /\ ~db[i].is_public

\* ---------------------------------------------------------------------
\* Error messages and input assembly
\* ---------------------------------------------------------------------

\* the exception classes the pipelines meet
ExceptionClasses == {"JSONDecodeError", "ValidationError", "TypeError", "APITimeoutError", "APIConnectionError"}

\* the str() of those exceptions: text made by the provider client, the
\* JSON parser or the schema validator
RawExceptionTexts == {StrOf(e)[1] : e \in ExceptionClasses}

\* the message holds a piece of raw exception text
CopiesExceptionText(message) == \E i \in 1..Len(message) : message[i] \in RawExceptionTexts

\* C21: no persisted error_text and no HTTP detail holds the raw text of a
\* provider, parser or validator exception: every message is one of the
\* fixed forms.
C21_FixedFormMessages ==
    /\ \A i \in 1..Len(db) : ~CopiesExceptionText(db[i].error_text)
    /\ \A p \in Procs : ~CopiesExceptionText(req[p].detail)

\* C25: a player-report provider call is only in flight for at least
\* MIN_GAMES games: the generator does not call the provider with fewer.
C25_AssemblyRevalidatesCount ==
    \A p \in Procs : req[p].pc = "player_call" => req[p].ngames >= MIN_GAMES

\* ---------------------------------------------------------------------
\* Isolation of the limiter stores
\* ---------------------------------------------------------------------

\* C27: a check changes only the list of the key it was asked about, in the
\* store of the function that was called: the other keys of that store and
\* every key of the other stores keep their lists, so the report-generation
\* limiter and the general limiter never affect each other.
C27_CheckTouchesOneList ==
    [][ checks' # checks =>
            /\ lastCheck'.fn \in LimiterFunctions
            /\ lastCheck'.key \in Keys
            /\ \A fn \in LimiterFunctions, k \in Keys :
                  (fn # lastCheck'.fn \/ k # lastCheck'.key) => StoreOf(fn)'[k] = StoreOf(fn)[k] ]_vars

\* C27 witness: the general limiter recorded a request for a key while the
\* report limiter holds a different, non-empty list for that key and the
\* general limiter holds a list for the other key
C27_Witness ==
    /\ lastCheck.fn = "check_general_rate_limit"
    /\ lastCheck.allowed
    /\ general_rate_limit_store[lastCheck.key] = lastCheck.after
    /\ report_generation_store[lastCheck.key] # << >>
    /\ report_generation_store[lastCheck.key] # general_rate_limit_store[lastCheck.key]
    /\ \E k \in Keys \ {lastCheck.key} : general_rate_limit_store[k] # << >>

\* ---------------------------------------------------------------------
\* Completed player reports
\* ---------------------------------------------------------------------

CompletedPlayerReport(row) == row.kind = "player" /\ row.status = "completed"

\* p's request taken in this step asks for a new player report
RequestsPlayerReport(p) == req[p].pc = "idle" /\ req'[p].kind \in PlayerKinds

\* C28: a completed player report, persisted or in a session, keeps its
\* body, status, share_token, model_used, prompt_version and every other
\* field but is_public in every step; is_public changes only by a
\* toggle_report_sharing of that report; a request for a new player report
\* leaves every existing row as it is and adds at most one new pending row.
C28_CompletedImmutable ==
    [][ /\ \A i \in 1..Len(db) :
              CompletedPlayerReport(db[i]) =>
                  /\ i <= Len(db')
                  /\ db'[i] = [db[i] EXCEPT !.is_public = db'[i].is_public]
                  /\ db'[i].is_public # db[i].is_public => \E p \in Procs : Toggles(p, i, db'[i].is_public)
        /\ \A i \in 1..Len(orm) :
              CompletedPlayerReport(orm[i]) =>
                  /\ i <= Len(orm')
                  /\ orm'[i] = [orm[i] EXCEPT !.is_public = orm'[i].is_public]
        /\ \A p \in Procs :
              RequestsPlayerReport(p) =>
                  \/ db' = db /\ req'[p].rid = NoReport
                  \/ db' = Append(db, PendingRow("player", ThePlayer)) /\ req'[p].rid = Len(db) + 1 ]_vars

\* C28 witness: a completed report had its sharing switched on, and a later
\* request for the same player got a row of its own while the completed
\* one still holds its body and token
C28_Witness ==
    \E i \in Rows("player"), p \in Procs :
        /\ db[i].status = "completed" /\ db[i].is_public /\ HasToken(db[i])
        /\ db[i].report_json # NullJson
        /\ req[p].kind \in PlayerKinds /\ req[p].rid > i

\* ---------------------------------------------------------------------
\* Shooting percentages
\* ---------------------------------------------------------------------

\* round(x, 1) of the float x = (made / att) * 100, in tenths.  round()
\* rounds the float to the nearest tenth and, when it lies exactly halfway
\* between two tenths, to the one whose last digit is even.  For att below
\* 80 the float is halfway exactly when the fraction is (halves are
\* multiples of 1/16, which floats hold exactly).
PyRound1(made, att) ==
    LET q == (1000 * made) \div att
        r == (1000 * made) % att
    IN  IF 2 * r < att THEN q
        ELSE IF 2 * r > att THEN q + 1
        ELSE IF q % 2 = 0 THEN q ELSE q + 1

\* BasketballGameStats
fg_percentage(fg_made, fg_att) == IF fg_att = 0 THEN None ELSE <<PyRound1(fg_made, fg_att)>>

three_percentage(three_made, three_att) == IF three_att = 0 THEN None ELSE <<PyRound1(three_made, three_att)>>

ft_percentage(ft_made, ft_att) == IF ft_att = 0 THEN None ELSE <<PyRound1(ft_made, ft_att)>>

\* PlayerGame
fg_pct(fgm, fga) == IF fga = 0 THEN None ELSE <<PyRound1(fgm, fga)>>

three_pct(tpm, tpa) == IF tpa = 0 THEN None ELSE <<PyRound1(tpm, tpa)>>

ft_pct(ftm, fta) == IF fta = 0 THEN None ELSE <<PyRound1(ftm, fta)>>

PercentageProperties == {"fg_percentage", "three_percentage", "ft_percentage", "fg_pct", "three_pct", "ft_pct"}

\* the made and attempted counts of a stats row: non-negative integers
\* (the schemas say ge=0 and do not compare the two)
ShotCounts == 0..MaxAttempts

PercentageOf(fn, made, att) ==
    CASE fn = "fg_percentage" -> fg_percentage(made, att)
      [] fn = "three_percentage" -> three_percentage(made, att)
      [] fn = "ft_percentage" -> ft_percentage(made, att)
      [] fn = "fg_pct" -> fg_pct(made, att)
      [] fn = "three_pct" -> three_pct(made, att)
      [] OTHER -> ft_pct(made, att)

\* a property of a stats row with these counts is about to be read
InitPercentage ==
    /\ InitProgram
    /\ calc \in {[fn |-> fn, args |-> <<made, att>>, result |-> None, done |-> FALSE] : fn \in PercentageProperties, made \in ShotCounts, att \in ShotCounts}

ReadPercentage ==
    /\ calc.fn \in PercentageProperties
    /\ ~calc.done
    /\ calc' = [calc EXCEPT !.result = PercentageOf(calc.fn, calc.args[1], calc.args[2]), !.done = TRUE]
    /\ UNCHANGED <<pipelineVars, now, limiterVars, granted, mw, running, counters, telemetry>>

NextPercentage == ReadPercentage

SpecPercentage == InitPercentage /\ [][NextPercentage]_vars

\* 100 * made / att rounded to tenths with halves rounded up, in tenths
RoundHalfUp1(made, att) == (2000 * made + att) \div (2 * att)

\* C22: each of the six percentage properties is null when the attempted
\* count is 0 and otherwise 100 * made / attempted rounded to one decimal
\* place with halves rounded up (9 of 16 gives 56.3).
C22_HalvesRoundedUp ==
    (calc.fn \in PercentageProperties /\ calc.done) =>
        calc.result = IF calc.args[2] = 0 THEN None ELSE <<RoundHalfUp1(calc.args[1], calc.args[2])>>

\* ---------------------------------------------------------------------
\* Input assembly of the player report
\* ---------------------------------------------------------------------

\* PlayerGame rows of one player: game_label is optional, two of the games
\* were played on the same day.  pts stands for the stat columns, which are
\* all copied the same way.
PlayerGames ==
    { [id |-> 1, game_date |-> 1, game_label |-> None, opponent |-> "Hawks", pts |-> 10],
      [id |-> 2, game_date |-> 1, game_label |-> None, opponent |-> "Bulls", pts |-> 20],
      [id |-> 3, game_date |-> 2, game_label |-> <<"Final">>, opponent |-> "Kings", pts |-> 30],
      [id |-> 4, game_date |-> 0, game_label |-> None, opponent |-> "Nets", pts |-> 40] }

\* lists of distinct games, in any order
GameLists ==
    {s \in UNION {[1..n -> PlayerGames] : n \in 0..MaxInputGames} :
        \A i, j \in 1..Len(s) : i # j => s[i] # s[j]}

\* sorted(games, key=lambda g: g.game_date): sorted() is stable, games of
\* the same date keep the order they came in
RECURSIVE sorted(_)
sorted(games) ==
    IF games = << >> THEN << >>
    ELSE LET front == sorted(SubSeq(games, 1, Len(games) - 1))
             g == games[Len(games)]
             k == Cardinality({i \in 1..Len(front) : front[i].game_date <= g.game_date})
         IN  SubSeq(front, 1, k) \o <<g>> \o SubSeq(front, k + 1, Len(front))

\* game.game_label or f"Game {i + 1}", for the game at position i (from 1)
LabelOf(game, i) == IF game.game_label = None THEN <<"Game ", i>> ELSE game.game_label

\* build_input_json(player, games) for the one player
build_input_json(games) ==
    LET sorted_games == sorted(games)
    IN  [player |-> ThePlayer,
         games |-> [i \in 1..Len(sorted_games) |->
                       [game_label |-> LabelOf(sorted_games[i], i),
                        date |-> sorted_games[i].game_date,
                        opponent |-> sorted_games[i].opponent,
                        pts |-> sorted_games[i].pts]]]

\* the input is about to be assembled from this list of games
InitInput ==
    /\ InitProgram
    /\ calc \in {[fn |-> "build_input_json", args |-> games, result |-> None, done |-> FALSE] : games \in GameLists}

AssembleInput ==
    /\ calc.fn = "build_input_json"
    /\ ~calc.done
    /\ calc' = [calc EXCEPT !.result = build_input_json(calc.args), !.done = TRUE]
    /\ UNCHANGED <<pipelineVars, now, limiterVars, granted, mw, running, counters, telemetry>>

NextInput == AssembleInput

SpecInput == InitInput /\ [][NextInput]_vars

\* C26: the assembled input depends on the set of games only: every list of
\* the same games gives the same input, whatever its order, and the games
\* array is in ascending date order.
C26_OrderIndependentInput ==
    (calc.fn = "build_input_json" /\ calc.done) =>
        /\ \A games \in GameLists : Range(games) = Range(calc.args) => build_input_json(games) = calc.result
        /\ \A i, j \in 1..Len(calc.result.games) : i < j => calc.result.games[i].date <= calc.result.games[j].date

\* ---------------------------------------------------------------------
\* Token counts and generation time of a game report
\* ---------------------------------------------------------------------

\* response.usage: absent, or the token counts of the call
NoUsage == [present |-> FALSE, prompt_tokens |-> 0, completion_tokens |-> 0]
Usages == {NoUsage, [present |-> TRUE, prompt_tokens |-> 900, completion_tokens |-> 400], [present |-> TRUE, prompt_tokens |-> 1000, completion_tokens |-> 150]}

\* a call that raises returns no response
UsagesOf(o) == IF o.kind = "raise" THEN {NoUsage} ELSE Usages

\* x or 0
OrZero(x) == IF x = None THEN 0 ELSE x[1]

\* start_time = time.time()
StartTimer(p) ==
    counters' = IF req'[p].pc = "first_call"
                THEN [counters EXCEPT ![p] = [NoCounters EXCEPT !.start_time = now]]
                ELSE counters

\* prompt_tokens = response.usage.prompt_tokens if response.usage else None
FirstUsage(c, usage) ==
    [c EXCEPT !.prompt_tokens = IF usage.present THEN <<usage.prompt_tokens>> ELSE None,
              !.completion_tokens = IF usage.present THEN <<usage.completion_tokens>> ELSE None,
              !.usages = Append(@, usage)]

\* mutant: the repair call's counts replace the first call's
AddRepairUsageReplacing(c, usage) ==
    IF usage.present
    THEN [c EXCEPT !.prompt_tokens = <<usage.prompt_tokens>>,
                   !.completion_tokens = <<usage.completion_tokens>>,
                   !.usages = Append(@, usage)]
    ELSE [c EXCEPT !.usages = Append(@, usage)]

\* if repair_response.usage: prompt_tokens = (prompt_tokens or 0) + ...
AddRepairUsage(c, usage) ==
    IF usage.present
    THEN [c EXCEPT !.prompt_tokens = <<OrZero(@) + usage.prompt_tokens>>,
                   !.completion_tokens = <<OrZero(@) + usage.completion_tokens>>,
                   !.usages = Append(@, usage)]
    ELSE [c EXCEPT !.usages = Append(@, usage)]

\* generation_time_ms = int((time.time() - start_time) * 1000)
generation_time_ms(c) == (now - c.start_time) * 1000

\* the three entries of report_json, as stored with report rid
StoreTelemetry(rid, c) ==
    {t \in telemetry : t.rid # rid} \cup
        {[rid |-> rid, prompt_tokens |-> c.prompt_tokens, completion_tokens |-> c.completion_tokens, generation_time_ms |-> generation_time_ms(c)]}

\* p's request ends in this step with a report generated by it
Generated(p) == req[p].pc # "done" /\ req'[p].pc = "done" /\ req'[p].code = 201 /\ req'[p].calls > 0

\* the usage of a returned call is read; a report that is then stored
\* carries the counts and the time
RecordUsage(p, o, usage, repair) ==
    IF o.kind = "raise" THEN UNCHANGED <<counters, telemetry>>
    ELSE LET c == IF repair THEN AddRepairUsage(counters[p], usage) ELSE FirstUsage(counters[p], usage)
         IN  /\ counters' = [counters EXCEPT ![p] = c]
             /\ telemetry' = IF Generated(p) THEN StoreTelemetry(req'[p].rid, c) ELSE telemetry

\* the provider outcomes used where the content of a game report does not
\* matter: a document, one the schema rejects, text that is not JSON, a
\* response without content and an exception
FewGameOutcomes == {GameDocOk, GameDocNoSummary, [kind |-> "text", id |-> "not json"], NoContent, [kind |-> "raise", id |-> "APITimeoutError"]}

\* the game-report pipeline with its clock
NextGame ==
    \/ \E p \in Workers, force_regenerate \in BOOLEAN, has_stats \in StatsInputs : started < MaxRequests /\ generate_report(p, force_regenerate, has_stats) /\ StartTimer(p) /\ UNCHANGED <<calc, granted, middlewareVars, telemetry>>
    \/ \E p \in Workers, o \in FewGameOutcomes : \E usage \in UsagesOf(o) : GameFirstResponse(p, o) /\ RecordUsage(p, o, usage, FALSE) /\ UNCHANGED <<calc, granted, middlewareVars>>
    \/ \E p \in Workers, o \in FewGameOutcomes : \E usage \in UsagesOf(o) : GameRepairResponse(p, o) /\ RecordUsage(p, o, usage, TRUE) /\ UNCHANGED <<calc, granted, middlewareVars>>
    \/ \E p \in Workers : NextRequest(p) /\ counters' = [counters EXCEPT ![p] = NoCounters] /\ UNCHANGED <<calc, granted, middlewareVars, telemetry>>
    \/ \E t \in Instants : Tick(t) /\ UNCHANGED auxVars

SpecGame == Init /\ [][NextGame]_vars

\* the sum of two optional counts where a missing one counts as 0
SumOrZero(usages, field) ==
    LET Count(u) == IF u.present THEN u[field] ELSE 0
    IN  <<Count(usages[1]) + Count(usages[2])>>

FirstCallCount(usages, field) == IF usages[1].present THEN <<usages[1][field]>> ELSE None

\* the record stored in this step for the report p generated
StoredFor(p) == CHOOSE t \in telemetry' : t.rid = req'[p].rid

\* C24 as claimed: a report generated with a repair stores for
\* prompt_tokens and completion_tokens the sum of both calls' usage, a
\* missing usage counting as 0; one generated without a repair stores the
\* first call's values; generation_time_ms is the time from the start,
\* taken before the first call, to the end of the last call.
C24_TelemetryOriginal ==
    [][ \A p \in Procs :
            Generated(p) =>
                LET u == counters'[p].usages
                    repaired == req'[p].repairs = 1
                IN  /\ \E t \in telemetry' : t.rid = req'[p].rid
                    /\ Len(u) = (IF repaired THEN 2 ELSE 1)
                    /\ StoredFor(p).prompt_tokens = (IF repaired THEN SumOrZero(u, "prompt_tokens") ELSE FirstCallCount(u, "prompt_tokens"))
                    /\ StoredFor(p).completion_tokens = (IF repaired THEN SumOrZero(u, "completion_tokens") ELSE FirstCallCount(u, "completion_tokens"))
                    /\ StoredFor(p).generation_time_ms = (now - counters[p].start_time) * 1000 ]_vars

\* both calls of a repaired generation came without usage
NeitherUsage(usages) == Len(usages) = 2 /\ ~usages[1].present /\ ~usages[2].present

\* C24: as above, except that a repaired generation neither of whose calls
\* reported usage stores null counts; the start time is the clock when the
\* first call is made, and only a generated report's record changes.
C24_Telemetry ==
    [][ /\ \A p \in Procs :
              Generated(p) =>
                  LET u == counters'[p].usages
                      repaired == req'[p].repairs = 1
                  IN  /\ \E t \in telemetry' : t.rid = req'[p].rid
                      /\ Len(u) = (IF repaired THEN 2 ELSE 1)
                      /\ StoredFor(p).prompt_tokens =
                            (IF repaired /\ ~NeitherUsage(u) THEN SumOrZero(u, "prompt_tokens")
                             ELSE IF repaired THEN None ELSE FirstCallCount(u, "prompt_tokens"))
                      /\ StoredFor(p).completion_tokens =
                            (IF repaired /\ ~NeitherUsage(u) THEN SumOrZero(u, "completion_tokens")
                             ELSE IF repaired THEN None ELSE FirstCallCount(u, "completion_tokens"))
                      /\ StoredFor(p).generation_time_ms = (now - counters[p].start_time) * 1000
        /\ \A p \in Procs :
              (req[p].pc = "idle" /\ req'[p].pc = "first_call") => counters'[p].start_time = now
        /\ \A p \in Procs :
              (req[p].pc \in {"first_call", "repair_call"}) => counters'[p].start_time = counters[p].start_time
        /\ telemetry' # telemetry => \E p \in Procs : Generated(p) ]_vars

\* C24 witness: a report generated with a repair, both calls reporting
\* usage, stored with the two sums and a time that covers both calls
C24_Witness ==
    \E p \in Procs, t \in telemetry :
        /\ Ended(p) /\ req[p].code = 201 /\ req[p].repairs = 1 /\ t.rid = req[p].rid
        /\ Len(counters[p].usages) = 2
        /\ counters[p].usages[1].present /\ counters[p].usages[2].present
        /\ counters[p].usages[1] # counters[p].usages[2]
        /\ t.prompt_tokens = <<counters[p].usages[1].prompt_tokens + counters[p].usages[2].prompt_tokens>>
        /\ t.completion_tokens = <<counters[p].usages[1].completion_tokens + counters[p].usages[2].completion_tokens>>
        /\ t.generation_time_ms > 0

\* ---------------------------------------------------------------------
\* The sliding window over a whole run
\* ---------------------------------------------------------------------

NonDecreasing(seq) == \A i, j \in 1..Len(seq) : i < j => seq[i] <= seq[j]

\* the timestamps of the report requests of TheUser that were allowed
GrantedReports == granted["check_report_generation_rate_limit"][TheUser]

\* C30 as claimed: after any run of checks with limit 10 and a clock that
\* never goes back, the key's list is non-decreasing and holds at most 10
\* entries, and any interval no longer than the window holds at most 10
\* allowed checks.
C30_WindowBoundOriginal ==
    /\ NonDecreasing(report_generation_store[TheUser])
    /\ Len(report_generation_store[TheUser]) <= REPORTS_PER_HOUR
    /\ \A i, j \in 1..Len(GrantedReports) :
          (i <= j /\ GrantedReports[j] - GrantedReports[i] <= REPORT_WINDOW_SECONDS) => j - i + 1 <= REPORTS_PER_HOUR

\* C30: the key's list is non-decreasing and holds at most 10 entries, and
\* any interval shorter than the window holds at most 10 allowed checks (a
\* request made exactly one window after an allowed one no longer counts
\* it).
C30_WindowBound ==
    /\ NonDecreasing(report_generation_store[TheUser])
    /\ Len(report_generation_store[TheUser]) <= REPORTS_PER_HOUR
    /\ NonDecreasing(GrantedReports)
    /\ \A i, j \in 1..Len(GrantedReports) :
          (i <= j /\ GrantedReports[j] - GrantedReports[i] < REPORT_WINDOW_SECONDS) => j - i + 1 <= REPORTS_PER_HOUR

\* C30 witness: ten requests were allowed and the eleventh, denied inside
\* the window, was allowed exactly one window after the first
C30_Witness ==
    /\ Len(GrantedReports) > REPORTS_PER_HOUR
    /\ GrantedReports[REPORTS_PER_HOUR + 1] - GrantedReports[1] = REPORT_WINDOW_SECONDS
    /\ lastCheck.fn = "check_report_generation_rate_limit" /\ lastCheck.allowed
    /\ Len(lastCheck.before) = REPORTS_PER_HOUR

\* ---------------------------------------------------------------------
\* Two server processes on one database
\* ---------------------------------------------------------------------

\* generate_report requests for the same game handled by two processes of
\* the API that share the database (each runs its own event loop and its
\* own session): one process's lookup, provider calls and commit are steps
\* the other's can fall between.  The reports table has an index on game_id
\* and no unique constraint (alembic/versions/001_initial_schema.py), so the
\* database accepts a second row for a game.
NextRace ==
    \/ \E p \in Procs, force_regenerate \in BOOLEAN, has_stats \in StatsInputs : started < MaxRequests /\ generate_report(p, force_regenerate, has_stats) /\ UNCHANGED auxVars
    \/ \E p \in Procs, o \in FewGameOutcomes : GameFirstResponse(p, o) /\ UNCHANGED auxVars
    \/ \E p \in Procs, o \in FewGameOutcomes : GameRepairResponse(p, o) /\ UNCHANGED auxVars
    \/ \E p \in Procs : NextRequest(p) /\ UNCHANGED auxVars

SpecRace == Init /\ [][NextRace]_vars

\* C29: whatever the interleaving of generate_report requests for the same
\* game, the game has at most one Report row.
C29_OneReportPerGame == Cardinality(GameRows) <= 1

\* both requests began while the game had no report and both stored one
TwoFirstGenerations ==
    /\ Cardinality(GameRows) = 2
    /\ \A p \in Procs : Ended(p) /\ req[p].kind = "game" /\ req[p].code = 201 /\ req[p].existing = NoReport

\* ---------------------------------------------------------------------
\* Concurrent requests on the event loop
\* ---------------------------------------------------------------------
\* rate_limit_middleware is a coroutine; check_rate_limit is a plain
\* function it calls.  The event loop runs one coroutine at a time and
\* changes coroutine only where the running one awaits; between two
\* statements of check_rate_limit there is no await.

\* mutant: the handlers run on threads that are preempted anywhere
MayRunPreemptive(p) == TRUE

\* the event loop can execute p's next statement: it is idle or is already
\* running p
MayRun(p) == running = "none" \/ running = p

\* p's request is inside check_rate_limit
InCheck(p) == mw[p].pc \in {"clean", "check", "record", "return"}

\* a request of client_ip reaches the server; its task waits for the loop
Arrive(p, client_ip) ==
    /\ mw[p].pc = "idle"
    /\ started' = started + 1
    /\ mw' = [mw EXCEPT ![p] = [IdleCheck EXCEPT !.pc = "ready", !.client_ip = client_ip]]
    /\ UNCHANGED <<openai_api_key, db, orm, req, minted, now, limiterVars, calc, granted, running, telemetryVars>>

\* current_time = time.time(); window_start = current_time - RATE_LIMIT_WINDOW
ReadClock(p) ==
    /\ mw[p].pc = "ready"
    /\ MayRun(p)
    /\ running' = p
    /\ mw' = [mw EXCEPT ![p] = [@ EXCEPT !.pc = "clean", !.current_time = now, !.window_start = now - RATE_LIMIT_WINDOW]]
    /\ UNCHANGED <<pipelineVars, now, limiterVars, calc, granted, telemetryVars>>

\* "Clean old entries"
CleanOld(p) ==
    /\ mw[p].pc = "clean"
    /\ MayRun(p)
    /\ running' = p
    /\ rate_limit_store' = [rate_limit_store EXCEPT ![mw[p].client_ip] = CleanOldEntries(@, mw[p].window_start)]
    /\ mw' = [mw EXCEPT ![p] = [@ EXCEPT !.pc = "check"]]
    /\ UNCHANGED <<pipelineVars, now, report_generation_store, general_rate_limit_store, RATE_LIMIT_REQUESTS, checks, lastCheck, calc, granted, telemetryVars>>

\* "Check limit"
CheckLimit(p) ==
    /\ mw[p].pc = "check"
    /\ MayRun(p)
    /\ running' = p
    /\ mw' = [mw EXCEPT ![p] = IF LimitReached(rate_limit_store[mw[p].client_ip], RATE_LIMIT_REQUESTS)
                               THEN [@ EXCEPT !.pc = "return", !.allowed = FALSE]
                               ELSE [@ EXCEPT !.pc = "record"]]
    /\ UNCHANGED <<pipelineVars, now, limiterVars, calc, granted, telemetryVars>>

\* "Record request"; return True
Record(p) ==
    /\ mw[p].pc = "record"
    /\ MayRun(p)
    /\ running' = p
    /\ rate_limit_store' = [rate_limit_store EXCEPT ![mw[p].client_ip] = RecordRequest(@, mw[p].current_time)]
    /\ granted' = [granted EXCEPT !["check_rate_limit"][mw[p].client_ip] = Append(@, mw[p].current_time)]
    /\ mw' = [mw EXCEPT ![p] = [@ EXCEPT !.pc = "return", !.allowed = TRUE]]
    /\ UNCHANGED <<pipelineVars, now, report_generation_store, general_rate_limit_store, RATE_LIMIT_REQUESTS, checks, lastCheck, calc, telemetryVars>>

\* if not check_rate_limit(client_ip): return Response(status_code=429);
\* otherwise await call_next(request), where the coroutine is suspended
Return(p) ==
    /\ mw[p].pc = "return"
    /\ MayRun(p)
    /\ running' = "none"
    /\ mw' = [mw EXCEPT ![p] = [@ EXCEPT !.pc = IF mw[p].allowed THEN "call_next" ELSE "done"]]
    /\ UNCHANGED <<pipelineVars, now, limiterVars, calc, granted, telemetryVars>>

\* the route's response arrives; the middleware returns it
Respond(p) ==
    /\ mw[p].pc = "call_next"
    /\ MayRun(p)
    /\ running' = "none"
    /\ mw' = [mw EXCEPT ![p] = [@ EXCEPT !.pc = "done"]]
    /\ UNCHANGED <<pipelineVars, now, limiterVars, calc, granted, telemetryVars>>

\* the connection serves its next request
NextArrival(p) ==
    /\ mw[p].pc = "done"
    /\ mw' = [mw EXCEPT ![p] = IdleCheck]
    /\ UNCHANGED <<pipelineVars, now, limiterVars, calc, granted, running, telemetryVars>>

NextLoop ==
    \/ \E p \in Procs, client_ip \in Keys : started < MaxLoopRequests /\ Arrive(p, client_ip)
    \/ \E p \in Procs : ReadClock(p)
    \/ \E p \in Procs : CleanOld(p)
    \/ \E p \in Procs : CheckLimit(p)
    \/ \E p \in Procs : Record(p)
    \/ \E p \in Procs : Return(p)
    \/ \E p \in Procs : Respond(p)
    \/ \E p \in Procs : NextArrival(p)
    \/ \E t \in Instants : Tick(t) /\ UNCHANGED auxVars

SpecLoop == Init /\ [][NextLoop]_vars

\* the allowed requests of key k
GrantedRequests(k) == granted["check_rate_limit"][k]

\* the timestamps of seq newer than now minus the window
InWindow(seq) == LET Newer(t) == t > now - RATE_LIMIT_WINDOW IN SelectSeq(seq, Newer)

IsSuffix(s, t) == Len(s) <= Len(t) /\ s = SubSeq(t, Len(t) - Len(s) + 1, Len(t))

\* C23: requests handled concurrently check the limit as if one after
\* another: at most one request is inside check_rate_limit at a time, and
\* while one is, no other request changes the store; no allowed timestamp
\* is lost: a key's list is the tail of the allowed timestamps and holds
\* every one still inside the window; and the allowed requests of a key
\* inside the window never exceed the limit.
C23_ChecksSerialized ==
    /\ Cardinality({p \in Procs : InCheck(p)}) <= 1
    /\ \A p \in Procs : InCheck(p) => running = p
    /\ \A k \in Keys :
          /\ IsSuffix(rate_limit_store[k], GrantedRequests(k))
          /\ InWindow(rate_limit_store[k]) = InWindow(GrantedRequests(k))
          /\ Len(InWindow(GrantedRequests(k))) <= RATE_LIMIT_REQUESTS

\* C23 witness: with the limit at 1 and nothing recorded for the key, a
\* request has passed the limit check and not yet recorded its timestamp
\* while another request of the same key is waiting to be checked
C23_Witness ==
    \E p, q \in Procs :
        /\ p # q
        /\ mw[p].client_ip = mw[q].client_ip
        /\ mw[p].pc = "record" /\ mw[q].pc = "ready"
        /\ RATE_LIMIT_REQUESTS = 1
        /\ rate_limit_store[mw[p].client_ip] = << >>

\* of two overlapping requests of one key the second was denied
OverlappingRequestDenied ==
    \E p, q \in Procs :
        /\ p # q
        /\ mw[p].client_ip = mw[q].client_ip
        /\ mw[p].pc = "call_next" /\ mw[p].allowed
        /\ mw[q].pc = "done" /\ ~mw[q].allowed

====
